---- MODULE Spec2Model ----
(***************************************************************************)
(* Model of the fitness back end: the suggestion generator                 *)
(* (suggestions/suggestion_generator.py), the two log analyzers            *)
(* (processing/workout_analyzer.py, processing/diet_analyzer.py), the      *)
(* combiner (processing/data_processor.py) and the /process_logs handler   *)
(* (app.py).                                                               *)
(*                                                                         *)
(* Python values are represented as follows.                               *)
(*   dict        a function whose DOMAIN is the set of keys present        *)
(*   list        a sequence                                                *)
(*   free text   a sequence of one-character strings, so that lower() and  *)
(*               the substring test `in` are computed, not looked up       *)
(*   None        a sentinel of the type of the field it stands in          *)
(*               (NoneText for free text, NoneNum for numbers, None for    *)
(*               tokens), because TLC compares only values of one type     *)
(***************************************************************************)
EXTENDS Integers, Sequences, FiniteSets, TLC

VARIABLES
    request,         \* the POST received by process_logs: its X-API-Key header and JSON body
    ap_pc,           \* position of process_logs: idle, auth, json, loop, done
    ap_index,        \* position of the loop in data.items()
    suggestions_by_trainee,
    response,        \* the response returned: status, error message, suggestions
    trainee_data,    \* the record the caller passed to process_trainee_data
    pd_given,        \* that record as it was when the call was made
    pd_pc,           \* position of the call: idle, check, workout, diet, combine, returned, raised
    pd_workout,      \* what its call of analyze_workout_logs returned or raised
    pd_diet,         \* what its call of analyze_diet_logs returned or raised
    pd_out,          \* what the call returned or raised
    diet_logs,       \* the list the caller passed to analyze_diet_logs
    dt_given,        \* that list as it was when the call was made
    dt_pc,           \* position of the call: idle, called, returned, raised
    dt_out,          \* what the call returned or raised
    workout_logs,    \* the list the caller passed to analyze_workout_logs
    wk_given,        \* that list as it was when the call was made
    wk_pc,           \* position of the call: idle, called, returned, raised
    wk_out,          \* what the call returned or raised
    analyzed_data,   \* argument of the running generate_suggestions call
    suggestions,     \* its local list `suggestions`
    sg_pc,           \* its position: idle, workout, nutrition, pad, motivate, pain, trim, returned, raised
    sg_result        \* the list it returned (<<>> before it returns)

sg_vars == <<analyzed_data, suggestions, sg_pc, sg_result>>
wk_vars == <<workout_logs, wk_given, wk_pc, wk_out>>
dt_vars == <<diet_logs, dt_given, dt_pc, dt_out>>
pd_vars == <<trainee_data, pd_given, pd_pc, pd_workout, pd_diet, pd_out>>
ap_vars == <<request, ap_pc, ap_index, suggestions_by_trainee, response>>

\* what a call of one component leaves alone: the state of the others
sg_others == <<wk_vars, dt_vars, pd_vars, ap_vars>>
wk_others == <<sg_vars, dt_vars, pd_vars, ap_vars>>
dt_others == <<sg_vars, wk_vars, pd_vars, ap_vars>>
pd_others == <<sg_vars, wk_vars, dt_vars, ap_vars>>
ap_others == <<sg_vars, wk_vars, dt_vars, pd_vars>>

----------------------------------------------------------------------------
(* Python helpers *)

EmptyDict == [k \in {} |-> 0]

None == "None"
NoneText == <<"None">>

\* a value that is no dict, and a value that is no list
NotADict == [not_a_dict |-> TRUE]
NotAList == <<[not_a_list |-> TRUE]>>

\* isinstance(x, dict), isinstance(x, list)
IsDict(x) == x # NotADict
IsList(x) == x # NotAList

\* dict.get(key, default)
Get(d, k, default) == IF k \in DOMAIN d THEN d[k] ELSE default

\* truth value of a dict: non-empty
Truthy(d) == DOMAIN d # {}

UpperCase == <<"A", "B", "C", "D", "E", "F", "G", "H", "I", "J", "K", "L", "M", "N", "O", "P", "Q", "R", "S", "T", "U", "V", "W", "X", "Y", "Z">>
LowerCase == <<"a", "b", "c", "d", "e", "f", "g", "h", "i", "j", "k", "l", "m", "n", "o", "p", "q", "r", "s", "t", "u", "v", "w", "x", "y", "z">>

\* the function taking keys[i] to values[i], from position i on
RECURSIVE Zip(_, _, _)
Zip(keys, values, i) ==
    IF i > Len(keys) THEN EmptyDict ELSE (keys[i] :> values[i]) @@ Zip(keys, values, i + 1)

LowerOf == Zip(UpperCase, LowerCase, 1)

lower_char(c) == IF c \in DOMAIN LowerOf THEN LowerOf[c] ELSE c

\* str.lower()
RECURSIVE lower(_)
lower(s) == IF s = <<>> THEN <<>> ELSE <<lower_char(Head(s))>> \o lower(Tail(s))

\* sub in s, for two texts
Contains(sub, s) ==
    \E i \in 0..(Len(s) - Len(sub)) : SubSeq(s, i + 1, i + Len(sub)) = sub

\* s[:n]
Prefix(s, n) == SubSeq(s, 1, IF Len(s) < n THEN Len(s) ELSE n)

\* the characters of the model's texts in code-point order
CharOrder == <<" ", ",", "-", ".", "0", "1", "2", "3", "4", "5", "6", "7", "8", "9", ":">> \o UpperCase \o LowerCase

OrdOf == Zip(CharOrder, [i \in 1..Len(CharOrder) |-> i], 1)

ord(c) == OrdOf[c]

\* the code points of a text, as far as their order goes
RECURSIVE ords(_)
ords(s) == IF s = <<>> THEN <<>> ELSE <<ord(Head(s))>> \o ords(Tail(s))

\* a < b for two tuples of integers: the order of str on code points, and
\* the order of datetime on its fields
RECURSIVE TupleLess(_, _)
TupleLess(a, b) ==
    IF b = <<>> THEN FALSE
    ELSE IF a = <<>> THEN TRUE
    ELSE IF Head(a) # Head(b) THEN Head(a) < Head(b)
    ELSE TupleLess(Tail(a), Tail(b))

\* a < b for two texts
StrLess(a, b) == TupleLess(ords(a), ords(b))

\* list.sort(key=...) on a list of [key, item] pairs: insertion after the
\* members whose key is not greater, so the sort is stable
RECURSIVE InsertByKey(_, _)
InsertByKey(x, sorted) ==
    IF sorted = <<>> THEN <<x>>
    ELSE IF TupleLess(x.key, Head(sorted).key) THEN <<x>> \o sorted
    ELSE <<Head(sorted)>> \o InsertByKey(x, Tail(sorted))

RECURSIVE SortPairs(_, _)
SortPairs(pairs, sorted) ==
    IF pairs = <<>> THEN sorted ELSE SortPairs(Tail(pairs), InsertByKey(Head(pairs), sorted))

RECURSIVE Items(_)
Items(pairs) == IF pairs = <<>> THEN <<>> ELSE <<Head(pairs).item>> \o Items(Tail(pairs))

StableSort(pairs) == Items(SortPairs(pairs, <<>>))

\* the rearrangements of a list
Rearrangements(s) ==
    {[i \in 1..Len(s) |-> s[f[i]]] :
        f \in {g \in [1..Len(s) -> 1..Len(s)] : \A i, j \in 1..Len(s) : i # j => g[i] # g[j]}}

\* sum(xs), len(set(xs)) helpers
RECURSIVE SumSeq(_)
SumSeq(xs) == IF xs = <<>> THEN 0 ELSE Head(xs) + SumSeq(Tail(xs))

Range(xs) == {xs[i] : i \in 1..Len(xs)}

\* [x for x in xs if Keep(x)]
RECURSIVE Filter(_, _)
Filter(xs, keep) ==
    IF xs = <<>> THEN <<>>
    ELSE (IF Head(xs) \in keep THEN <<Head(xs)>> ELSE <<>>) \o Filter(Tail(xs), keep)

SetMax(S) == CHOOSE x \in S : \A y \in S : y <= x
SetMin(S) == CHOOSE x \in S : \A y \in S : x <= y

----------------------------------------------------------------------------
(* datetime.strptime.  A format is a sequence whose members are directives *)
(* ("%Y", "%m", ...) and literal characters.  Every directive of the two   *)
(* formats in use is followed by a literal that is no digit or ends the    *)
(* format, so a directive has to match the whole run of digits it meets.   *)

Digits == <<"0", "1", "2", "3", "4", "5", "6", "7", "8", "9">>

DigitValue == Zip(Digits, [i \in 1..Len(Digits) |-> i - 1], 1)

IsDigit(c) == c \in DOMAIN DigitValue

digit_value(c) == DigitValue[c]

\* the number of digits of s from position i on
RECURSIVE DigitRun(_, _)
DigitRun(s, i) == IF i <= Len(s) /\ IsDigit(s[i]) THEN 1 + DigitRun(s, i + 1) ELSE 0

\* int(s[i:i+n])
RECURSIVE int_of(_, _, _)
int_of(s, i, n) == IF n = 0 THEN 0 ELSE int_of(s, i, n - 1) * 10 + digit_value(s[i + n - 1])

Directives == {"%Y", "%m", "%d", "%H", "%M", "%S", "%f"}

\* the digit counts and the values the regular expression of a directive takes
DirectiveLens(dv) ==
    CASE dv = "%Y" -> {4}
      [] dv = "%f" -> 1..6
      [] OTHER -> 1..2

DirectiveValues(dv) ==
    CASE dv = "%Y" -> 0..9999
      [] dv = "%m" -> 1..12
      [] dv = "%d" -> 1..31
      [] dv = "%H" -> 0..23
      [] dv = "%M" -> 0..59
      [] dv = "%S" -> 0..61
      [] dv = "%f" -> 0..999999

\* %f is read as a fraction of a second: padded on the right to 6 digits
RECURSIVE Scale(_, _)
Scale(v, n) == IF n >= 6 THEN v ELSE Scale(v * 10, n + 1)

ParseFail == [ok |-> FALSE, fields |-> <<>>]

\* the values of the directives of fmt[fi..] read from s[si..]
RECURSIVE parse_fields(_, _, _, _)
parse_fields(fmt, fi, s, si) ==
    IF fi > Len(fmt)
    THEN (IF si > Len(s) THEN [ok |-> TRUE, fields |-> <<>>] ELSE ParseFail)
    ELSE IF fmt[fi] \in Directives
    THEN LET dv == fmt[fi]
             sp == dv = "%d" /\ si + 1 <= Len(s) /\ s[si] = " "
             st == IF sp THEN si + 1 ELSE si
             n == DigitRun(s, st)
             v == int_of(s, st, n)
         IN  IF n \in DirectiveLens(dv) /\ v \in DirectiveValues(dv) /\ (sp => n = 1 /\ v >= 1)
             THEN LET rest == parse_fields(fmt, fi + 1, s, st + n)
                  IN  IF rest.ok
                      THEN [ok |-> TRUE,
                            fields |-> <<IF dv = "%f" THEN Scale(v, n) ELSE v>> \o rest.fields]
                      ELSE ParseFail
             ELSE ParseFail
    ELSE IF si <= Len(s) /\ s[si] = fmt[fi] THEN parse_fields(fmt, fi + 1, s, si + 1)
    ELSE ParseFail

IsLeap(y) == y % 4 = 0 /\ (y % 100 # 0 \/ y % 400 = 0)

DaysInMonth(y, m) ==
    IF m = 2 THEN (IF IsLeap(y) THEN 29 ELSE 28)
    ELSE IF m \in {4, 6, 9, 11} THEN 30 ELSE 31

RECURSIVE DaysBeforeMonth(_, _)
DaysBeforeMonth(y, m) == IF m = 1 THEN 0 ELSE DaysBeforeMonth(y, m - 1) + DaysInMonth(y, m - 1)

\* date.toordinal()
Ordinal(y, m, d) ==
    (y - 1) * 365 + ((y - 1) \div 4) - ((y - 1) \div 100) + ((y - 1) \div 400)
    + DaysBeforeMonth(y, m) + d

DateFormat == <<"%Y", "-", "%m", "-", "%d">>
TimestampFormat == <<"%Y", "-", "%m", "-", "%d", "T", "%H", ":", "%M", ":", "%S", ".", "%f", "Z">>

\* the fields read are those of a date the datetime constructor accepts
ValidDate(f) == f[1] >= 1 /\ f[3] <= DaysInMonth(f[1], f[2])

\* datetime.strptime(s, '%Y-%m-%d'): the day as an ordinal, or ValueError
strptime_date(s) ==
    LET r == parse_fields(DateFormat, 1, s, 1)
    IN  IF r.ok /\ ValidDate(r.fields)
        THEN [ok |-> TRUE, day |-> Ordinal(r.fields[1], r.fields[2], r.fields[3])]
        ELSE [ok |-> FALSE, day |-> 0]

\* datetime.strptime(s, '%Y-%m-%dT%H:%M:%S.%fZ'): the instant as the tuple
\* <<day, hour, minute, second, microsecond>>, or ValueError
strptime_timestamp(s) ==
    LET r == parse_fields(TimestampFormat, 1, s, 1)
    IN  IF r.ok /\ ValidDate(r.fields) /\ r.fields[6] <= 59
        THEN [ok |-> TRUE,
              at |-> <<Ordinal(r.fields[1], r.fields[2], r.fields[3])>> \o SubSeq(r.fields, 4, 7)]
        ELSE [ok |-> FALSE, at |-> <<>>]

\* datetime.min
datetime_min == <<1, 0, 0, 0, 0>>

----------------------------------------------------------------------------
(* suggestions/suggestion_generator.py: the literals.  A suggestion string *)
(* "<tag>: <text>" is kept as the record [tag, text]; no text holds the    *)
(* words "Warning Flag", so `"Warning Flag" in s` is s.tag = "Warning Flag" *)

kw_tired == <<"t", "i", "r", "e", "d">>
kw_fatigue == <<"f", "a", "t", "i", "g", "u", "e">>
kw_pain == <<"p", "a", "i", "n">>
kw_hungry == <<"h", "u", "n", "g", "r", "y">>

FrequencyTip == [tag |-> "Workout Tip", text |-> "Increasing workout frequency could help you reach your goals faster."]
IntensityAdjustment == [tag |-> "Workout Adjustment", text |-> "Consider slightly increasing intensity (weight, reps, or sets) on key exercises."]
OvertrainingWarning == [tag |-> "Warning Flag", text |-> "High perceived exertion consistently could indicate overtraining. Prioritize rest and recovery."]
RecoveryTip == [tag |-> "Workout Tip", text |-> "Pay extra attention to recovery and sleep this week."]
MealPlanTip == [tag |-> "Nutrition Tip", text |-> "Review your meal plan to identify barriers to consistency and find practical solutions."]
CalorieTip == [tag |-> "Nutrition Adjustment", text |-> "Ensure your calorie intake supports your activity level and goals."]
ProteinTip == [tag |-> "Nutrition Tip", text |-> "Focus on incorporating more protein sources into your meals."]
HungerTip == [tag |-> "Nutrition Tip", text |-> "Consider adjusting meal timing or composition to manage hunger."]
GeneralIntensityTip == [tag |-> "General Tip", text |-> "Review your workout intensity this week."]
GeneralHydrationTip == [tag |-> "General Tip", text |-> "Pay attention to your hydration and sleep."]
Motivation == [tag |-> "Motivation", text |-> "Remember your goals and why you started! Stay disciplined."]
PainWarning == [tag |-> "Warning Flag", text |-> "Trainee noted pain during workouts. Advise checking form or consulting a professional."]

MinSuggestions == 2
MaxSuggestions == 4

\* any(flag in s for s in suggestions for flag in ["Warning Flag"])
HasWarningFlag(s) == \E i \in 1..Len(s) : s[i].tag = "Warning Flag"

----------------------------------------------------------------------------
(* generate_suggestions, the definition in force (the second one of the    *)
(* file, which rebinds the name), section by section                       *)

workout_analysis_of(a) == Get(a, "workout_analysis", EmptyDict)
diet_analysis_of(a) == Get(a, "diet_analysis", EmptyDict)

\* workout_analysis.get('notes', '') / diet_analysis.get('notes', '')
notes_of(d) == Get(d, "notes", <<>>)

\* variant: the two tests of the branch in the other order
frequency_or_intensity_swapped(wa) ==
    IF Get(wa, "progress", "unknown") = "stalled" THEN <<IntensityAdjustment>>
    ELSE IF Get(wa, "consistency", "unknown") = "low" THEN <<FrequencyTip>>
    ELSE <<>>

\* the consistency / progress branch
frequency_or_intensity(wa) ==
    IF Get(wa, "consistency", "unknown") = "low" THEN <<FrequencyTip>>
    ELSE IF Get(wa, "progress", "unknown") = "stalled" THEN <<IntensityAdjustment>>
    ELSE <<>>

\* the recovery test on the lower-cased workout notes
recovery_rule(workout_notes) ==
    IF Contains(kw_tired, workout_notes) \/ Contains(kw_fatigue, workout_notes)
    THEN <<RecoveryTip>> ELSE <<>>

\* the workout section; called only when the notes are not None
workout_rules(wa) ==
    frequency_or_intensity(wa)
    \o (IF Get(wa, "perceived_exertion", "unknown") = "high" THEN <<OvertrainingWarning>> ELSE <<>>)
    \o recovery_rule(lower(notes_of(wa)))

\* the tip for diet compliance
compliance_rule(da) ==
    IF Get(da, "compliance", "unknown") = "low" THEN <<MealPlanTip>> ELSE <<>>

\* the nutrition section; called only when the notes are not None
nutrition_rules(da) ==
    compliance_rule(da)
    \o (IF Get(da, "calories", "unknown") = "low" THEN <<CalorieTip>> ELSE <<>>)
    \o (IF Get(da, "protein", "unknown") = "low" THEN <<ProteinTip>> ELSE <<>>)
    \o (IF Contains(kw_hungry, lower(notes_of(da))) THEN <<HungerTip>> ELSE <<>>)

\* the condition of the padding loop
pad_condition(s, wa, da) ==
    Len(s) < MinSuggestions /\ (Truthy(wa) \/ Truthy(da))

\* variant: the second iteration appends the first generic tip again
pad_step_same_tip(s) ==
    IF Len(s) < MinSuggestions THEN Append(s, GeneralIntensityTip) ELSE s

\* one iteration of the padding loop
pad_step(s) ==
    IF Len(s) = 0 THEN Append(s, GeneralIntensityTip)
    ELSE IF Len(s) = 1 THEN Append(s, GeneralHydrationTip)
    ELSE s

\* the whole padding loop
RECURSIVE pad(_, _, _)
pad(s, wa, da) == IF pad_condition(s, wa, da) THEN pad(pad_step(s), wa, da) ELSE s

\* the motivational message
motivate(s) ==
    IF Len(s) < MaxSuggestions /\ ~HasWarningFlag(s) THEN Append(s, Motivation) ELSE s

\* the pain warning
pain_check(s, workout_notes) ==
    IF Contains(kw_pain, workout_notes) THEN Append(s, PainWarning) ELSE s

\* return suggestions[:4]
trim(s) == Prefix(s, MaxSuggestions)

\* .lower() of a None raises inside the try block
notes_raise(d) == notes_of(d) = NoneText

SuggestionGenerationError == [error |-> "SuggestionGenerationError"]

\* the call as a function: the returned list, or the exception raised
generate_suggestions(a) ==
    LET wa == workout_analysis_of(a)
        da == diet_analysis_of(a)
    IN  IF notes_raise(wa) \/ notes_raise(da) THEN SuggestionGenerationError
        ELSE trim(pain_check(motivate(pad(workout_rules(wa) \o nutrition_rules(da), wa, da)),
                             lower(notes_of(wa))))

----------------------------------------------------------------------------
(* The inputs of generate_suggestions *)

\* "Felt tired, some knee pain"
NoteTiredPain == <<"F", "e", "l", "t", " ", "t", "i", "r", "e", "d", ",", " ", "s", "o", "m", "e", " ", "k", "n", "e", "e", " ", "p", "a", "i", "n">>
\* "FATIGUE in legs"
NoteFatigue == <<"F", "A", "T", "I", "G", "U", "E", " ", "i", "n", " ", "l", "e", "g", "s">>
\* "Sharp Pain"
NotePain == <<"S", "h", "a", "r", "p", " ", "P", "a", "i", "n">>
\* "Felt good"
NoteGood == <<"F", "e", "l", "t", " ", "g", "o", "o", "d">>
\* "Always Hungry"
NoteHungry == <<"A", "l", "w", "a", "y", "s", " ", "H", "u", "n", "g", "r", "y">>

\* the dicts with key k absent or bound to one of vals
Opt(k, vals) == {EmptyDict} \cup {[x \in {k} |-> v] : v \in vals}

QualWorkoutAnalyses ==
    {c @@ p @@ e @@ n :
        c \in Opt("consistency", {"low", "high"}),
        p \in Opt("progress", {"stalled", "good"}),
        e \in Opt("perceived_exertion", {"high", "moderate"}),
        n \in Opt("notes", {NoteGood, NoteTiredPain, NoteFatigue, NotePain, NoneText})}

QualDietAnalyses ==
    {c @@ k @@ p @@ n :
        c \in Opt("compliance", {"low", "high"}),
        k \in Opt("calories", {"low", "adequate"}),
        p \in Opt("protein", {"low"}),
        n \in Opt("notes", {<<>>, NoteHungry, NoneText})}

\* analysed data as the rules read it: either key may be absent
AnalyzedData ==
    {w @@ d :
        w \in {EmptyDict} \cup {[x \in {"workout_analysis"} |-> wa] : wa \in QualWorkoutAnalyses},
        d \in {EmptyDict} \cup {[x \in {"diet_analysis"} |-> da] : da \in QualDietAnalyses}}

----------------------------------------------------------------------------
(* generate_suggestions as a process: one action per section of the body *)

SgInit ==
    /\ analyzed_data = EmptyDict
    /\ suggestions = <<>>
    /\ sg_pc = "idle"
    /\ sg_result = <<>>

\* the call: suggestions = []
SgCall ==
    /\ sg_pc = "idle"
    /\ \E a \in AnalyzedData : analyzed_data' = a
    /\ suggestions' = <<>>
    /\ sg_pc' = "workout"
    /\ UNCHANGED sg_result
    /\ UNCHANGED sg_others

\* reading the workout fields and the workout rules
SgWorkoutRules ==
    /\ sg_pc = "workout"
    /\ LET wa == workout_analysis_of(analyzed_data) IN
        IF notes_raise(wa)
        THEN /\ sg_pc' = "raised"
             /\ UNCHANGED suggestions
        ELSE /\ suggestions' = suggestions \o workout_rules(wa)
             /\ sg_pc' = "nutrition"
    /\ UNCHANGED <<analyzed_data, sg_result>>
    /\ UNCHANGED sg_others

\* reading the diet fields and the nutrition rules
SgNutritionRules ==
    /\ sg_pc = "nutrition"
    /\ LET da == diet_analysis_of(analyzed_data) IN
        IF notes_raise(da)
        THEN /\ sg_pc' = "raised"
             /\ UNCHANGED suggestions
        ELSE /\ suggestions' = suggestions \o nutrition_rules(da)
             /\ sg_pc' = "pad"
    /\ UNCHANGED <<analyzed_data, sg_result>>
    /\ UNCHANGED sg_others

\* one iteration of the padding loop
SgPadStep ==
    /\ sg_pc = "pad"
    /\ pad_condition(suggestions, workout_analysis_of(analyzed_data), diet_analysis_of(analyzed_data))
    /\ suggestions' = pad_step(suggestions)
    /\ UNCHANGED <<analyzed_data, sg_pc, sg_result>>
    /\ UNCHANGED sg_others

\* leaving the padding loop
SgPadExit ==
    /\ sg_pc = "pad"
    /\ ~pad_condition(suggestions, workout_analysis_of(analyzed_data), diet_analysis_of(analyzed_data))
    /\ sg_pc' = "motivate"
    /\ UNCHANGED <<analyzed_data, suggestions, sg_result>>
    /\ UNCHANGED sg_others

\* the motivational message
SgMotivate ==
    /\ sg_pc = "motivate"
    /\ suggestions' = motivate(suggestions)
    /\ sg_pc' = "pain"
    /\ UNCHANGED <<analyzed_data, sg_result>>
    /\ UNCHANGED sg_others

\* the pain warning
SgPainCheck ==
    /\ sg_pc = "pain"
    /\ suggestions' = pain_check(suggestions, lower(notes_of(workout_analysis_of(analyzed_data))))
    /\ sg_pc' = "trim"
    /\ UNCHANGED <<analyzed_data, sg_result>>
    /\ UNCHANGED sg_others

\* return suggestions[:4]
SgReturn ==
    /\ sg_pc = "trim"
    /\ sg_result' = trim(suggestions)
    /\ sg_pc' = "returned"
    /\ UNCHANGED <<analyzed_data, suggestions>>
    /\ UNCHANGED sg_others

SgNext ==
    \/ SgCall
    \/ SgWorkoutRules
    \/ SgNutritionRules
    \/ SgPadStep
    \/ SgPadExit
    \/ SgMotivate
    \/ SgPainCheck
    \/ SgReturn

----------------------------------------------------------------------------
(* Properties of generate_suggestions *)

Returned == sg_pc = "returned"

\* x occurs in the list s
InList(x, s) == \E i \in 1..Len(s) : s[i] = x

NoDuplicates(s) == \A i, j \in 1..Len(s) : i # j => s[i] # s[j]

\* the lower-cased workout notes of the running call
CallWorkoutNotes == lower(notes_of(workout_analysis_of(analyzed_data)))

\* C1: every list generate_suggestions returns has at least 2 and at most 4
\* entries, also when workout_analysis and diet_analysis are empty or absent.
C1_LengthBetween2And4 ==
    Returned => Len(sg_result) >= 2 /\ Len(sg_result) <= 4

\* C2: no suggestion is present twice, neither in the list while the rules,
\* the padding, the motivational append and the pain append build it, nor in
\* the list returned after the truncation.
C2_NoDuplicates ==
    NoDuplicates(suggestions) /\ NoDuplicates(sg_result)

\* C2 witness: a returned list built by the padding loop (both generic tips),
\* the motivational append and the pain append.
C2_Witness ==
    /\ Returned
    /\ sg_result = <<GeneralIntensityTip, GeneralHydrationTip, Motivation, PainWarning>>

\* C4: a returned list holding a suggestion tagged "Warning Flag" does not
\* hold the generic motivational message.
C4_WarningSuppressesMotivation ==
    (Returned /\ HasWarningFlag(sg_result)) => ~InList(Motivation, sg_result)

\* C5: when the workout notes contain "pain" (case-insensitively), the
\* returned list holds the pain warning; the truncation never removes it.
C5_PainWarningReturned ==
    (Returned /\ Contains(kw_pain, CallWorkoutNotes)) => InList(PainWarning, sg_result)

\* C6: with consistency "low" and compliance "low" the returned list holds the
\* frequency tip and the meal-plan-review tip, the frequency tip first.
C6_FrequencyBeforeMealPlan ==
    (/\ Returned
     /\ Get(workout_analysis_of(analyzed_data), "consistency", "unknown") = "low"
     /\ Get(diet_analysis_of(analyzed_data), "compliance", "unknown") = "low")
    => \E i, j \in 1..Len(sg_result) :
          i < j /\ sg_result[i] = FrequencyTip /\ sg_result[j] = MealPlanTip

\* C6 witness: both fields "low" with the overtraining warning and the
\* recovery tip between the two tips, so that the meal-plan tip is the last
\* entry the truncation keeps.
C6_Witness ==
    /\ Returned
    /\ Len(suggestions) > MaxSuggestions
    /\ sg_result = <<FrequencyTip, OvertrainingWarning, RecoveryTip, MealPlanTip>>

\* the place of a suggestion in the order of priority: tips of the workout rules,
\* tips of the nutrition rules, the motivational message, the generic tips
Rank(x) ==
    IF x \in {FrequencyTip, IntensityAdjustment, OvertrainingWarning, RecoveryTip} THEN 1
    ELSE IF x \in {MealPlanTip, CalorieTip, ProteinTip, HungerTip} THEN 2
    ELSE IF x = Motivation THEN 3
    ELSE 4

\* C15: in every list generate_suggestions returns the entries are in the order
\* of priority: workout tips, nutrition tips, the motivational message, then the
\* generic tips; no generic tip stands before the motivational message, and the
\* tip on intensity stands before the tip on hydration and sleep.
C15_PriorityOrder ==
    Returned =>
        \A i, j \in 1..Len(sg_result) :
            (i < j /\ sg_result[i] # PainWarning /\ sg_result[j] # PainWarning) =>
                /\ Rank(sg_result[i]) <= Rank(sg_result[j])
                /\ ~(sg_result[i] = GeneralHydrationTip /\ sg_result[j] = GeneralIntensityTip)

\* the message of the first definition of generate_suggestions, which the second
\* definition replaces when the module is loaded
PositiveReinforcement ==
    [tag |-> "Suggestion", text |-> "Great work this week! Keep up the consistent effort."]

\* the call is on a good progress and a high compliance, and no rule has fired
GoodWeekReturned ==
    /\ Returned
    /\ Get(workout_analysis_of(analyzed_data), "progress", "unknown") = "good"
    /\ Get(diet_analysis_of(analyzed_data), "compliance", "unknown") = "high"
    /\ workout_rules(workout_analysis_of(analyzed_data)) = <<>>
    /\ nutrition_rules(diet_analysis_of(analyzed_data)) = <<>>
    /\ ~Contains(kw_pain, CallWorkoutNotes)

\* C16: when workout progress is "good" and diet compliance is "high" the
\* positive-reinforcement message is appended after the nutrition tips and before
\* the motivational message, so that with no other flag raised it is in the
\* returned list.
C16_PositiveReinforcement ==
    GoodWeekReturned =>
        \E i \in 1..Len(sg_result) :
            /\ sg_result[i] = PositiveReinforcement
            /\ \A j \in 1..Len(sg_result) : sg_result[j] = Motivation => i < j

----------------------------------------------------------------------------
(* processing/workout_analyzer.py *)

NoneNum == -1

\* bool(x) of a text or None
TruthyText(x) == x # NoneText /\ x # <<>>

\* a ratio a / b, which Python holds as a float
Ratio(a, b) == [num |-> a, den |-> b]

\* f"{a / b:.1f}" in tenths: the nearest tenth, a tie going to the even one
\* (a tie has b a multiple of 4 here, and such a quotient is exact in binary)
RoundTenths(a, b) ==
    LET q == (10 * a) \div b
        r == (10 * a) % b
    IN  IF 2 * r < b THEN q
        ELSE IF 2 * r > b THEN q + 1
        ELSE IF q % 2 = 0 THEN q ELSE q + 1

\* the result dict as first built
WorkoutDefaults ==
    [consistency |-> EmptyDict,
     completion_summary |-> EmptyDict,
     progress_trends |-> EmptyDict,
     perceived_exertion |-> [label |-> "N/A", tenths |-> 0, suffix |-> ""],
     notes_summary |-> <<>>]

\* the key of the sort: log.get("workout_date", "")
workout_sort_key(log) == Get(log, "workout_date", <<>>)

\* comparing two keys raises TypeError when either is None
sort_raises(logs) ==
    Len(logs) >= 2 /\ \E i \in 1..Len(logs) : workout_sort_key(logs[i]) = NoneText

\* the logs with their keys, compared as str
RECURSIVE workout_keyed(_)
workout_keyed(logs) ==
    IF logs = <<>> THEN <<>>
    ELSE <<[key |-> ords(workout_sort_key(Head(logs))), item |-> Head(logs)]>>
         \o workout_keyed(Tail(logs))

\* workout_logs.sort(key=...); called only when the comparisons succeed
sort_by_workout_date(logs) ==
    IF Len(logs) < 2 THEN logs ELSE StableSort(workout_keyed(logs))

\* the set of the non-empty workout_date values
unique_dates_of(logs) ==
    {Get(logs[i], "workout_date", NoneText) : i \in 1..Len(logs)} \ {NoneText, <<>>}

\* the consistency dict; called only when every date parses
consistency_of(logs) ==
    LET unique_dates == unique_dates_of(logs)
        dates == {strptime_date(d).day : d \in unique_dates}
        time_span == IF Cardinality(unique_dates) > 1 THEN SetMax(dates) - SetMin(dates) ELSE 0
    IN  [k \in {"unique_workout_dates"} |-> Cardinality(unique_dates)]
        @@ (IF unique_dates # {} THEN [k \in {"time_span_days"} |-> time_span] ELSE EmptyDict)
        @@ (IF unique_dates # {} /\ time_span > 0
            THEN [k \in {"workouts_per_day_average"} |-> Ratio(Cardinality(unique_dates), time_span)]
            ELSE EmptyDict)

\* log.get("completion_status", "unknown")
status_of(log) == Get(log, "completion_status", "unknown")

\* variant: an entry without a completion_status is not counted
completion_summary_skipping_missing(logs) ==
    [st \in {status_of(logs[i]) : i \in 1..Len(logs)} \ {"unknown"} |->
        Cardinality({i \in 1..Len(logs) : status_of(logs[i]) = st})]

\* the histogram of the completion statuses
completion_summary_of(logs) ==
    [st \in {status_of(logs[i]) : i \in 1..Len(logs)} |->
        Cardinality({i \in 1..Len(logs) : status_of(logs[i]) = st})]

\* bool(exercise_id)
exercise_of(log) == Get(log, "workout_exercise_id", None)

HasExercise(log) == exercise_of(log) \notin {None, ""}

\* the values one log adds to an exercise's "weights" / "reps" list
per_set_values(log, key) == Filter(Get(log, key, <<>>), Nat)

\* the value one log adds to an exercise's "sets" list
sets_values(log) ==
    IF Get(log, "sets_completed", NoneNum) # NoneNum THEN <<log["sets_completed"]>> ELSE <<>>

\* the lists gathered for one exercise over the sorted logs
RECURSIVE exercise_data(_, _)
exercise_data(logs, ex) ==
    IF logs = <<>> THEN [weights |-> <<>>, reps |-> <<>>, sets |-> <<>>]
    ELSE LET rest == exercise_data(Tail(logs), ex)
             log == Head(logs)
         IN  IF HasExercise(log) /\ exercise_of(log) = ex
             THEN [weights |-> per_set_values(log, "weight_per_set") \o rest.weights,
                   reps |-> per_set_values(log, "reps_per_set") \o rest.reps,
                   sets |-> sets_values(log) \o rest.sets]
             ELSE rest

\* data[k] and max(data[k]) > min(data[k])
Increased(xs) == xs # <<>> /\ SetMax(Range(xs)) > SetMin(Range(xs))

\* variant: the tests are made one after the other, each adding to the label
progress_status_composite(data) ==
    IF Increased(data.weights) /\ Increased(data.reps) THEN "Weight increased and Reps increased"
    ELSE IF Increased(data.weights) THEN "Weight increased"
    ELSE IF Increased(data.reps) THEN "Reps increased"
    ELSE IF Increased(data.sets) THEN "Sets increased"
    ELSE "No significant change"

\* the label of one exercise
progress_status(data) ==
    IF Increased(data.weights) THEN "Weight increased"
    ELSE IF Increased(data.reps) THEN "Reps increased"
    ELSE IF Increased(data.sets) THEN "Sets increased"
    ELSE "No significant change"

progress_trends_of(logs) ==
    [ex \in {exercise_of(logs[i]) : i \in {j \in 1..Len(logs) : HasExercise(logs[j])}} |->
        progress_status(exercise_data(logs, ex))]

\* the perceived exertion line
RECURSIVE exertions_of(_)
exertions_of(logs) ==
    IF logs = <<>> THEN <<>>
    ELSE (IF Get(Head(logs), "perceived_exertion", NoneNum) # NoneNum
          THEN <<Head(logs)["perceived_exertion"]>> ELSE <<>>) \o exertions_of(Tail(logs))

HighExertion == 7

\* variant: the analysis carries the label the rule for overtraining tests
perceived_exertion_labelled(logs) ==
    IF exertions_of(logs) = <<>> THEN WorkoutDefaults.perceived_exertion
    ELSE [label |-> IF SumSeq(exertions_of(logs)) > HighExertion * Len(exertions_of(logs))
                    THEN "high" ELSE "moderate",
          tenths |-> 0, suffix |-> ""]

perceived_exertion_of(logs) ==
    LET pes == exertions_of(logs)
    IN  IF pes = <<>> THEN WorkoutDefaults.perceived_exertion
        ELSE [label |-> "Average perceived exertion: ",
              tenths |-> RoundTenths(SumSeq(pes), Len(pes)),
              suffix |-> IF SumSeq(pes) > HighExertion * Len(pes) THEN " (Potentially high)" ELSE ""]

\* the non-empty notes, the first 3 of them
RECURSIVE notes_in(_)
notes_in(logs) ==
    IF logs = <<>> THEN <<>>
    ELSE (IF TruthyText(Get(Head(logs), "notes", NoneText)) THEN <<Head(logs)["notes"]>> ELSE <<>>)
         \o notes_in(Tail(logs))

MaxNotes == 3

\* the body after the early return: what the call returns or raises, and the
\* lists the caller's list may hold afterwards (a sort that fails in a comparison leaves the list in an
\* order that is not specified; one that fails in the key function, which
\* runs on every member before any is moved, leaves it as it was)
analyze_present_logs(logs) ==
    IF \E i \in 1..Len(logs) : ~IsDict(logs[i])
    THEN [outcome |-> "raised", error |-> "AttributeError", result |-> WorkoutDefaults,
          after |-> {logs}]
    ELSE IF sort_raises(logs)
    THEN [outcome |-> "raised", error |-> "TypeError", result |-> WorkoutDefaults,
          after |-> Rearrangements(logs)]
    ELSE LET sorted == sort_by_workout_date(logs)
         IN  IF \E d \in unique_dates_of(sorted) : ~strptime_date(d).ok
             THEN [outcome |-> "raised", error |-> "ValueError", result |-> WorkoutDefaults,
                   after |-> {sorted}]
             ELSE [outcome |-> "returned", error |-> "",
                   result |-> [consistency |-> consistency_of(sorted),
                               completion_summary |-> completion_summary_of(sorted),
                               progress_trends |-> progress_trends_of(sorted),
                               perceived_exertion |-> perceived_exertion_of(sorted),
                               notes_summary |-> Prefix(notes_in(sorted), MaxNotes)],
                   after |-> {sorted}]

\* variant: the test for an empty list is missing
analyze_workout_logs_unguarded(logs) == analyze_present_logs(logs)

\* analyze_workout_logs: the early return on an empty list, then the body
analyze_workout_logs(logs) ==
    IF logs = <<>>
    THEN [outcome |-> "returned", error |-> "",
          result |-> [WorkoutDefaults EXCEPT !.consistency =
                          [k \in {"message"} |-> "No workout logs provided."]],
          after |-> {logs}]
    ELSE analyze_present_logs(logs)

----------------------------------------------------------------------------
(* The inputs of analyze_workout_logs *)

MaxWorkoutLogs == 2

\* "2023-10-26"
Date1026 == <<"2", "0", "2", "3", "-", "1", "0", "-", "2", "6">>
\* "2023-10-28"
Date1028 == <<"2", "0", "2", "3", "-", "1", "0", "-", "2", "8">>
\* "not-a-date"
NotADate == <<"n", "o", "t", "-", "a", "-", "d", "a", "t", "e">>

WorkoutExtras ==
    {EmptyDict,
     [workout_exercise_id |-> "ex1", weight_per_set |-> <<100, 105>>, reps_per_set |-> <<10, NoneNum>>,
      sets_completed |-> 2, perceived_exertion |-> 8, notes |-> NoteGood],
     [workout_exercise_id |-> "ex1", weight_per_set |-> <<100, 95>>, sets_completed |-> 3,
      perceived_exertion |-> 7, notes |-> NoteTiredPain]}

WorkoutLogEntries ==
    {d @@ c @@ x :
        d \in Opt("workout_date", {Date1026, Date1028, NotADate, NoneText}),
        c \in Opt("completion_status", {"completed", "incomplete"}),
        x \in WorkoutExtras}

\* the lists of at most n members of S
ListsUpTo(S, n) == UNION {[1..k -> S] : k \in 0..n}

WorkoutBatches == ListsUpTo(WorkoutLogEntries, MaxWorkoutLogs)

----------------------------------------------------------------------------
(* analyze_workout_logs as a process *)

\* no call made yet
NoOutcome == [outcome |-> "none", error |-> "", result |-> WorkoutDefaults, after |-> {}]

WkInit ==
    /\ workout_logs = <<>>
    /\ wk_given = <<>>
    /\ wk_pc = "idle"
    /\ wk_out = NoOutcome

\* a caller passes a list
WkCall ==
    /\ wk_pc = "idle"
    /\ \E logs \in WorkoutBatches : workout_logs' = logs /\ wk_given' = logs
    /\ wk_pc' = "called"
    /\ UNCHANGED wk_out
    /\ UNCHANGED wk_others

\* the body of analyze_workout_logs
WkAnalyze ==
    /\ wk_pc = "called"
    /\ wk_out' = analyze_workout_logs(workout_logs)
    /\ workout_logs' \in wk_out'.after
    /\ wk_pc' = wk_out'.outcome
    /\ UNCHANGED wk_given
    /\ UNCHANGED wk_others

WkNext == WkCall \/ WkAnalyze

----------------------------------------------------------------------------
(* Calls of analyze_workout_logs with entries of exercises *)

ExerciseEntries ==
    {[workout_exercise_id |-> "ex1"] @@ w @@ r @@ c :
        w \in Opt("weight_per_set", {<<100, 105>>, <<100, 95>>, <<100, NoneNum>>}),
        r \in Opt("reps_per_set", {<<10>>, <<12>>}),
        c \in Opt("sets_completed", {3, 4})}
    \cup {[weight_per_set |-> <<100, 105>>],
          [workout_exercise_id |-> "ex2", sets_completed |-> 3],
          [workout_exercise_id |-> "ex2", sets_completed |-> NoneNum, reps_per_set |-> <<12>>]}

ExerciseBatches == ListsUpTo(ExerciseEntries, MaxWorkoutLogs)

\* a caller passes a list of entries of exercises
WkCallExercises ==
    /\ wk_pc = "idle"
    /\ \E logs \in ExerciseBatches : workout_logs' = logs /\ wk_given' = logs
    /\ wk_pc' = "called"
    /\ UNCHANGED wk_out
    /\ UNCHANGED wk_others

WxNext == WkCallExercises \/ WkAnalyze

----------------------------------------------------------------------------
(* Calls of analyze_workout_logs with dates written in several ways *)

\* "2023-10-06"
Date1006 == <<"2", "0", "2", "3", "-", "1", "0", "-", "0", "6">>
\* "2023-10-6"
Date106 == <<"2", "0", "2", "3", "-", "1", "0", "-", "6">>

DatedEntries ==
    {d @@ c :
        d \in Opt("workout_date", {Date1026, Date1028, Date1006, Date106, <<>>}),
        c \in Opt("completion_status", {"completed", "incomplete"})}

DatedBatches == ListsUpTo(DatedEntries, MaxWorkoutLogs)

\* a caller passes a list of dated entries
WkCallDated ==
    /\ wk_pc = "idle"
    /\ \E logs \in DatedBatches : workout_logs' = logs /\ wk_given' = logs
    /\ wk_pc' = "called"
    /\ UNCHANGED wk_out
    /\ UNCHANGED wk_others

WdNext == WkCallDated \/ WkAnalyze

----------------------------------------------------------------------------
(* processing/diet_analyzer.py.  The file's indentation is uneven; the     *)
(* body is read with the block structure its statements need: everything  *)
(* up to the final return inside the try block, and lines 51-94 the body   *)
(* of the loop over the entries.                                           *)

\* a float that is 0
Zero == Ratio(0, 1)

\* the result dict as first built
DietDefaults ==
    [total_calories |-> 0,
     total_protein |-> 0,
     total_carbs |-> 0,
     total_fats |-> 0,
     compliance_rate |-> Zero,
     meal_type_distribution |-> EmptyDict,
     notes_summary |-> <<>>,
     food_name_counts |-> EmptyDict,
     average_daily_calories |-> Zero,
     average_daily_protein |-> Zero,
     average_daily_carbs |-> Zero,
     average_daily_fats |-> Zero]

\* the key of the sort: the parsed created_at, datetime.min without one
created_at_of(log) == Get(log, "created_at", NoneText)

diet_sort_key(log) ==
    IF TruthyText(created_at_of(log)) THEN strptime_timestamp(created_at_of(log))
    ELSE [ok |-> TRUE, at |-> datetime_min]

\* the logs with their keys; ok is false where the key function raises
\* ValueError, on a created_at of another format
RECURSIVE diet_keyed(_)
diet_keyed(logs) ==
    IF logs = <<>> THEN <<>>
    ELSE LET k == diet_sort_key(Head(logs))
         IN  <<[key |-> k.at, ok |-> k.ok, item |-> Head(logs)]>> \o diet_keyed(Tail(logs))

diet_key_raises(keyed) == \E i \in 1..Len(keyed) : ~keyed[i].ok

\* diet_logs.sort(key=...), given the logs with their keys
sort_by_created_at(keyed) == StableSort(keyed)

\* the members the loop does not skip: the dicts
RECURSIVE dict_entries(_)
dict_entries(logs) ==
    IF logs = <<>> THEN <<>>
    ELSE (IF IsDict(Head(logs)) THEN <<Head(logs)>> ELSE <<>>) \o dict_entries(Tail(logs))

\* log.get(key, 0) or 0
number_of(log, key) ==
    IF Get(log, key, 0) = NoneNum THEN 0 ELSE Get(log, key, 0)

\* variant: the total starts from the first entry's value and then adds every
\* entry, so the first entry is counted twice
RECURSIVE total_from(_, _)
total_from(logs, key) ==
    IF logs = <<>> THEN 0
    ELSE number_of(Head(logs), key) + total_from(Tail(logs), key)

running_total_first_twice(logs, key) ==
    IF logs = <<>> THEN 0 ELSE number_of(Head(logs), key) + total_from(logs, key)

\* the running total of one field over the entries
RECURSIVE running_total(_, _)
running_total(logs, key) ==
    IF logs = <<>> THEN 0
    ELSE number_of(Head(logs), key) + running_total(Tail(logs), key)

\* the entry opens or feeds a day bucket: its log_date is there and parses
log_date_of(log) == Get(log, "log_date", NoneText)

\* variant: the day bucket is opened before the date is parsed
has_day_before_parse(log) == TruthyText(log_date_of(log))

has_day(log) == TruthyText(log_date_of(log)) /\ strptime_date(log_date_of(log)).ok

\* the entries that feed daily_intake
RECURSIVE dated_logs(_)
dated_logs(logs) ==
    IF logs = <<>> THEN <<>>
    ELSE (IF has_day(Head(logs)) THEN <<Head(logs)>> ELSE <<>>) \o dated_logs(Tail(logs))

\* the keys of daily_intake, from the entries that feed it
logged_days(dated) == {strptime_date(log_date_of(dated[i])).day : i \in 1..Len(dated)}

\* sum(day[key] for day in daily_intake.values()) / num_logged_days
average_daily(dated, num_logged_days, key) ==
    IF num_logged_days > 0
    THEN Ratio(running_total(dated, key), num_logged_days)
    ELSE Zero

\* "Non-compliant entry on "
NonCompliantPrefix == <<"N", "o", "n", "-", "c", "o", "m", "p", "l", "i", "a", "n", "t", " ", "e", "n", "t", "r", "y", " ", "o", "n", " ">>
\* ": "
ColonSpace == <<":", " ">>
\* "No specific notes."
NoSpecificNotes == <<"N", "o", " ", "s", "p", "e", "c", "i", "f", "i", "c", " ", "n", "o", "t", "e", "s", ".">>
\* "None"
NoneAsText == <<"N", "o", "n", "e">>

\* str(x) of a text or None
str(x) == IF x = NoneText THEN NoneAsText ELSE x

\* the note written for an entry whose compliance is False
non_compliant_note(log) ==
    NonCompliantPrefix \o str(log_date_of(log)) \o ColonSpace
    \o str(Get(log, "notes", NoSpecificNotes))

\* what one entry appends to notes_summary
entry_notes(log) ==
    (IF "compliance" \in DOMAIN log /\ log["compliance"] = FALSE
     THEN <<non_compliant_note(log)>> ELSE <<>>)
    \o (IF TruthyText(Get(log, "notes", NoneText)) THEN <<log["notes"]>> ELSE <<>>)

RECURSIVE notes_summary_of(_)
notes_summary_of(logs) ==
    IF logs = <<>> THEN <<>> ELSE entry_notes(Head(logs)) \o notes_summary_of(Tail(logs))

\* the number of entries whose compliance is True
compliant_logs(logs) ==
    Cardinality({i \in 1..Len(logs) : "compliance" \in DOMAIN logs[i] /\ logs[i]["compliance"] = TRUE})

\* the histogram of the non-empty values of a field
counts_of(logs, key) ==
    [v \in {Get(logs[i], key, None) : i \in 1..Len(logs)} \ {None, ""} |->
        Cardinality({i \in 1..Len(logs) : Get(logs[i], key, None) = v})]

\* the call with its targets left at None: what it returns or raises, and
\* the lists the caller's list may hold afterwards
analyze_diet_logs(logs) ==
    IF ~IsList(logs)
    THEN [outcome |-> "raised", error |-> "ProcessingError", result |-> DietDefaults,
          after |-> {logs}]
    ELSE IF (\E i \in 1..Len(logs) : ~IsDict(logs[i])) \/ diet_key_raises(diet_keyed(logs))
    THEN [outcome |-> "raised", error |-> "ProcessingError", result |-> DietDefaults,
          after |-> {logs}]
    ELSE LET sorted == sort_by_created_at(diet_keyed(logs))
             entries == dict_entries(sorted)
             dated == dated_logs(entries)
             num_logged_days == Cardinality(logged_days(dated))
         IN  IF sorted = <<>>
             THEN [outcome |-> "returned", error |-> "", result |-> DietDefaults, after |-> {sorted}]
             ELSE [outcome |-> "returned", error |-> "",
                   result |-> [total_calories |-> running_total(entries, "calories"),
                               total_protein |-> running_total(entries, "protein"),
                               total_carbs |-> running_total(entries, "carbs"),
                               total_fats |-> running_total(entries, "fats"),
                               compliance_rate |-> Ratio(compliant_logs(entries) * 100, Len(sorted)),
                               meal_type_distribution |-> counts_of(entries, "meal_type"),
                               notes_summary |-> notes_summary_of(entries),
                               food_name_counts |-> counts_of(entries, "food_name"),
                               average_daily_calories |-> average_daily(dated, num_logged_days, "calories"),
                               average_daily_protein |-> average_daily(dated, num_logged_days, "protein"),
                               average_daily_carbs |-> average_daily(dated, num_logged_days, "carbs"),
                               average_daily_fats |-> average_daily(dated, num_logged_days, "fats")],
                   after |-> {sorted}]

----------------------------------------------------------------------------
(* The inputs of analyze_diet_logs *)

MaxDietLogs == 2

\* "2023-10-27"
Date1027 == <<"2", "0", "2", "3", "-", "1", "0", "-", "2", "7">>
\* "2023-10-26T08:00:00.000Z"
Created1 == <<"2", "0", "2", "3", "-", "1", "0", "-", "2", "6", "T", "0", "8", ":", "0", "0", ":", "0", "0", ".", "0", "0", "0", "Z">>
\* "2023-10-26T10:00:00Z"
CreatedNoFraction == <<"2", "0", "2", "3", "-", "1", "0", "-", "2", "6", "T", "1", "0", ":", "0", "0", ":", "0", "0", "Z">>
\* "Ate out"
NoteAteOut == <<"A", "t", "e", " ", "o", "u", "t">>

DietExtras ==
    {[created_at |-> Created1, protein |-> 30, carbs |-> 50, fats |-> 15, compliance |-> TRUE,
      meal_type |-> "Lunch", food_name |-> "Chicken Salad", notes |-> <<>>],
     [protein |-> NoneNum, carbs |-> 80, compliance |-> FALSE, meal_type |-> "Dinner", notes |-> NoteAteOut],
     [created_at |-> CreatedNoFraction, meal_type |-> "Lunch"]}

DietLogEntries ==
    {d @@ c @@ x :
        d \in Opt("log_date", {Date1026, Date1027, NotADate}),
        c \in Opt("calories", {NoneNum, 200, 500}),
        x \in DietExtras}

DietBatches == ListsUpTo(DietLogEntries, MaxDietLogs)

----------------------------------------------------------------------------
(* analyze_diet_logs as a process *)

DtInit ==
    /\ diet_logs = <<>>
    /\ dt_given = <<>>
    /\ dt_pc = "idle"
    /\ dt_out = [NoOutcome EXCEPT !.result = DietDefaults]

\* a caller passes a list
DtCall ==
    /\ dt_pc = "idle"
    /\ \E logs \in DietBatches : diet_logs' = logs /\ dt_given' = logs
    /\ dt_pc' = "called"
    /\ UNCHANGED dt_out
    /\ UNCHANGED dt_others

\* the body of analyze_diet_logs
DtAnalyze ==
    /\ dt_pc = "called"
    /\ dt_out' = analyze_diet_logs(diet_logs)
    /\ diet_logs' \in dt_out'.after
    /\ dt_pc' = dt_out'.outcome
    /\ UNCHANGED dt_given
    /\ UNCHANGED dt_others

DtNext == DtCall \/ DtAnalyze

----------------------------------------------------------------------------
(* Calls of analyze_diet_logs with lists that hold members that are no dicts *)

MixedBatches == ListsUpTo(DietLogEntries \cup {NotADict}, MaxDietLogs)

\* a caller passes a list whose members are dicts or not
DtCallMixed ==
    /\ dt_pc = "idle"
    /\ \E logs \in MixedBatches : diet_logs' = logs /\ dt_given' = logs
    /\ dt_pc' = "called"
    /\ UNCHANGED dt_out
    /\ UNCHANGED dt_others

DmNext == DtCallMixed \/ DtAnalyze

----------------------------------------------------------------------------
(* processing/data_processor.py *)

ProcessingError(msg) == [outcome |-> "raised", error |-> "ProcessingError", message |-> msg]

\* the type checks on the argument: the message of the error raised, "" if none
trainee_data_error(td) ==
    IF ~IsDict(td) THEN "Invalid trainee data format. Expected a dictionary."
    ELSE IF "workout_logs" \notin DOMAIN td \/ ~IsList(td["workout_logs"])
    THEN "Invalid workout logs format. Expected a list."
    ELSE IF "diet_logs" \notin DOMAIN td \/ ~IsList(td["diet_logs"])
    THEN "Invalid diet logs format. Expected a list."
    ELSE ""

\* combined_analysis
combined_analysis(workout_analysis, diet_analysis) ==
    [workout_analysis |-> workout_analysis, diet_analysis |-> diet_analysis]

\* the try block: an exception of either analyzer becomes a ProcessingError
analysis_or_error(wk, dt) ==
    IF wk.outcome = "raised" \/ dt.outcome = "raised"
    THEN ProcessingError("Error during analysis")
    ELSE [outcome |-> "returned", error |-> "",
          result |-> combined_analysis(wk.result, dt.result)]

\* the call as a function: the combined analysis returned, or the error raised
process_trainee_data(td) ==
    IF trainee_data_error(td) # "" THEN ProcessingError(trainee_data_error(td))
    ELSE analysis_or_error(analyze_workout_logs(td["workout_logs"]),
                           analyze_diet_logs(td["diet_logs"]))

----------------------------------------------------------------------------
(* The inputs of process_trainee_data *)

MaxTraineeLogs == 2

TraineeWorkoutEntries ==
    {[created_at |-> Created1, trainee_id |-> "t1", workout_date |-> Date1026,
      completion_status |-> "completed", perceived_exertion |-> 8, notes |-> NoteTiredPain],
     [created_at |-> Created1, trainee_id |-> "t1", workout_date |-> NotADate],
     [created_at |-> Created1, completion_status |-> "incomplete"]}

TraineeDietEntries ==
    {[created_at |-> Created1, trainee_id |-> "t1", log_date |-> Date1026, calories |-> 200,
      compliance |-> FALSE, notes |-> NoteHungry],
     [trainee_id |-> "t1", log_date |-> NotADate, calories |-> 500],
     [created_at |-> CreatedNoFraction, trainee_id |-> "t1", calories |-> 200]}

\* trainee records whose two lists hold at most n entries each
TraineeRecords(n) ==
    {[workout_logs |-> w, diet_logs |-> d] :
        w \in ListsUpTo(TraineeWorkoutEntries, n), d \in ListsUpTo(TraineeDietEntries, n)}

\* arguments of the wrong shape
MalformedTrainees ==
    {NotADict,
     [diet_logs |-> <<>>],
     [workout_logs |-> <<>>],
     [workout_logs |-> NotAList, diet_logs |-> <<>>],
     [workout_logs |-> <<>>, diet_logs |-> NotAList],
     [workout_logs |-> <<NotADict>>, diet_logs |-> <<>>],
     [workout_logs |-> <<>>, diet_logs |-> <<NotADict>>]}

----------------------------------------------------------------------------
(* process_trainee_data as a process *)

NoAnalysis == [outcome |-> "none", error |-> "", result |-> EmptyDict]

PdInit ==
    /\ trainee_data = EmptyDict
    /\ pd_given = EmptyDict
    /\ pd_pc = "idle"
    /\ pd_workout = NoOutcome
    /\ pd_diet = [NoOutcome EXCEPT !.result = DietDefaults]
    /\ pd_out = NoAnalysis

\* a caller passes a trainee record
PdCall ==
    /\ pd_pc = "idle"
    /\ \E td \in TraineeRecords(MaxTraineeLogs) \cup MalformedTrainees :
          trainee_data' = td /\ pd_given' = td
    /\ pd_pc' = "check"
    /\ UNCHANGED <<pd_workout, pd_diet, pd_out>>
    /\ UNCHANGED pd_others

\* the type checks
PdCheck ==
    /\ pd_pc = "check"
    /\ IF trainee_data_error(trainee_data) # ""
       THEN /\ pd_out' = ProcessingError(trainee_data_error(trainee_data))
            /\ pd_pc' = "raised"
       ELSE /\ pd_pc' = "workout"
            /\ UNCHANGED pd_out
    /\ UNCHANGED <<trainee_data, pd_given, pd_workout, pd_diet>>
    /\ UNCHANGED pd_others

\* workout_analysis = analyze_workout_logs(workout_logs), on the caller's list
PdWorkout ==
    /\ pd_pc = "workout"
    /\ pd_workout' = analyze_workout_logs(trainee_data["workout_logs"])
    /\ \E l \in pd_workout'.after :
          trainee_data' = [trainee_data EXCEPT !["workout_logs"] = l]
    /\ IF pd_workout'.outcome = "raised"
       THEN /\ pd_out' = ProcessingError("Error during analysis")
            /\ pd_pc' = "raised"
       ELSE /\ pd_pc' = "diet"
            /\ UNCHANGED pd_out
    /\ UNCHANGED <<pd_given, pd_diet>>
    /\ UNCHANGED pd_others

\* diet_analysis = analyze_diet_logs(diet_logs), on the caller's list
PdDiet ==
    /\ pd_pc = "diet"
    /\ pd_diet' = analyze_diet_logs(trainee_data["diet_logs"])
    /\ \E l \in pd_diet'.after :
          trainee_data' = [trainee_data EXCEPT !["diet_logs"] = l]
    /\ IF pd_diet'.outcome = "raised"
       THEN /\ pd_out' = ProcessingError("Error during analysis")
            /\ pd_pc' = "raised"
       ELSE /\ pd_pc' = "combine"
            /\ UNCHANGED pd_out
    /\ UNCHANGED <<pd_given, pd_workout>>
    /\ UNCHANGED pd_others

\* return combined_analysis
PdReturn ==
    /\ pd_pc = "combine"
    /\ pd_out' = [outcome |-> "returned", error |-> "",
                  result |-> combined_analysis(pd_workout.result, pd_diet.result)]
    /\ pd_pc' = "returned"
    /\ UNCHANGED <<trainee_data, pd_given, pd_workout, pd_diet>>
    /\ UNCHANGED pd_others

PdNext == PdCall \/ PdCheck \/ PdWorkout \/ PdDiet \/ PdReturn

----------------------------------------------------------------------------
(* app.py: process_logs.  The file's indentation is flat; the body is read  *)
(* with the block structure its statements need: the checks of a trainee    *)
(* and the two calls inside the loop, the final return after the loop, and  *)
(* all of it inside the try block.                                           *)

API_KEY == "your_super_secret_api_key"

\* the body of a request without valid JSON, and a JSON body that is no dict
NoJson == <<[no_json |-> TRUE]>>
NotADictBody == <<[not_a_dict |-> TRUE]>>

ErrorEntry(msg) == [kind |-> "error", error |-> msg, suggestions |-> <<>>]
SuggestionEntry(s) == [kind |-> "suggestions", error |-> "", suggestions |-> s]

Response(status, msg, by_trainee) ==
    [status |-> status, error |-> msg, suggestions |-> by_trainee]

\* any(... not in log ...) over the entries of a list
missing_required_field(logs) ==
    \E i \in 1..Len(logs) : "created_at" \notin DOMAIN logs[i] \/ "trainee_id" \notin DOMAIN logs[i]

\* not isinstance(logs, list) or not all(isinstance(log, dict) for log in logs)
invalid_logs(logs) == ~IsList(logs) \/ \E i \in 1..Len(logs) : ~IsDict(logs[i])

\* the checks of one trainee: the message of the error entry, "" when all pass
trainee_error(td) ==
    IF ~IsDict(td) THEN "Invalid data structure for trainee"
    ELSE IF "workout_logs" \notin DOMAIN td \/ "diet_logs" \notin DOMAIN td
    THEN "Missing 'workout_logs' or 'diet_logs'"
    ELSE IF invalid_logs(td["workout_logs"]) THEN "Invalid data structure for 'workout_logs'"
    ELSE IF invalid_logs(td["diet_logs"]) THEN "Invalid data structure for 'diet_logs'"
    ELSE IF missing_required_field(td["workout_logs"])
    THEN "Missing required field in workout logs"
    ELSE IF missing_required_field(td["diet_logs"]) THEN "Missing required field in diet logs"
    ELSE ""

\* what the rules of generate_suggestions see of an analysis made by the analyzers:
\* its keys, each with a value (a dict, a number, a list, a string such as "N/A")
\* that equals none of the labels the rules compare with
Unlabelled == "unlabelled"

\* the perceived_exertion string as the rules compare it: the text alone when no
\* average follows it, else a longer string, which equals no label
exertion_seen(pe) == IF pe.tenths = 0 /\ pe.suffix = "" THEN pe.label ELSE Unlabelled

seen_by_rules(analysis) ==
    [k \in DOMAIN analysis |->
        IF k = "perceived_exertion" THEN exertion_seen(analysis[k])
        ELSE IF k = "notes" THEN analysis[k]
        ELSE Unlabelled]

Raised == [outcome |-> "raised", entry |-> ErrorEntry("")]
Stored(entry) == [outcome |-> "stored", entry |-> entry]

\* suggestions = generate_suggestions(analyzed_data), then the entry of the trainee
suggestions_entry(a) ==
    IF notes_raise(workout_analysis_of(a)) \/ notes_raise(diet_analysis_of(a))
    THEN Raised
    ELSE Stored(SuggestionEntry(generate_suggestions(a)))

\* the two calls of an iteration, on what process_trainee_data returned or raised
suggestions_for(analyzed) ==
    IF analyzed.outcome = "raised" THEN Raised
    ELSE suggestions_entry([workout_analysis |-> seen_by_rules(analyzed.result.workout_analysis),
                            diet_analysis |-> seen_by_rules(analyzed.result.diet_analysis)])

\* one iteration of the loop: the entry stored for the trainee, or the exception
trainee_step(td) ==
    IF trainee_error(td) # "" THEN Stored(ErrorEntry(trainee_error(td)))
    ELSE suggestions_for(process_trainee_data(td))

----------------------------------------------------------------------------
(* The requests *)

MaxTrainees == 2

TraineeIds == <<"t1", "t2", "t3">>

ApiKeys == {API_KEY, "another_key", "", None}

WorkoutEntryGood ==
    [created_at |-> Created1, trainee_id |-> "t1", workout_date |-> Date1026,
     completion_status |-> "completed", perceived_exertion |-> 8, notes |-> NoteTiredPain]
WorkoutEntryBadDate == [created_at |-> Created1, trainee_id |-> "t1", workout_date |-> NotADate]
WorkoutEntryNoId == [created_at |-> Created1, completion_status |-> "incomplete"]
DietEntryGood ==
    [created_at |-> Created1, trainee_id |-> "t1", log_date |-> Date1026, calories |-> 200,
     compliance |-> FALSE, notes |-> NoteHungry]
DietEntryNoCreatedAt == [trainee_id |-> "t1", log_date |-> NotADate, calories |-> 500]

RequestTrainees ==
    {NotADict,
     [diet_logs |-> <<>>],
     [workout_logs |-> NotAList, diet_logs |-> <<>>],
     [workout_logs |-> <<>>, diet_logs |-> <<NotADict>>],
     [workout_logs |-> <<WorkoutEntryNoId>>, diet_logs |-> <<>>],
     [workout_logs |-> <<>>, diet_logs |-> <<DietEntryNoCreatedAt>>],
     [workout_logs |-> <<>>, diet_logs |-> <<>>],
     [workout_logs |-> <<WorkoutEntryGood>>, diet_logs |-> <<DietEntryGood>>],
     [workout_logs |-> <<WorkoutEntryGood>>, diet_logs |-> <<>>],
     [workout_logs |-> <<>>, diet_logs |-> <<DietEntryGood>>],
     [workout_logs |-> <<WorkoutEntryBadDate>>, diet_logs |-> <<DietEntryGood>>]}

\* a JSON object of n trainees, in the order of its keys
TraineeMaps(n) ==
    {[i \in 1..n |-> [trainee_id |-> TraineeIds[i], trainee_data |-> tds[i]]] :
        tds \in [1..n -> RequestTrainees]}

Bodies == {NoJson, NotADictBody} \cup UNION {TraineeMaps(n) : n \in 0..MaxTrainees}

IsObject(body) == body # NoJson /\ body # NotADictBody

----------------------------------------------------------------------------
(* process_logs as a process *)

NoRequest == [api_key |-> None, json |-> NoJson]
NoResponse == Response(0, "", EmptyDict)

ApInit ==
    /\ request = NoRequest
    /\ ap_pc = "idle"
    /\ ap_index = 1
    /\ suggestions_by_trainee = EmptyDict
    /\ response = NoResponse

\* a POST arrives
ApReceive ==
    /\ ap_pc = "idle"
    /\ \E key \in ApiKeys, body \in Bodies : request' = [api_key |-> key, json |-> body]
    /\ ap_pc' = "auth"
    /\ UNCHANGED <<ap_index, suggestions_by_trainee, response>>
    /\ UNCHANGED ap_others

\* the test of the X-API-Key header
ApAuth ==
    /\ ap_pc = "auth"
    /\ IF request.api_key = None \/ request.api_key = "" \/ request.api_key # API_KEY
       THEN /\ response' = Response(401, "Unauthorized: Invalid or missing API key", EmptyDict)
            /\ ap_pc' = "done"
       ELSE /\ ap_pc' = "json"
            /\ UNCHANGED response
    /\ UNCHANGED <<request, ap_index, suggestions_by_trainee>>
    /\ UNCHANGED ap_others

\* the tests of the JSON body
ApValidate ==
    /\ ap_pc = "json"
    /\ IF request.json = NoJson
       THEN /\ response' = Response(400, "Invalid JSON data", EmptyDict)
            /\ ap_pc' = "done"
            /\ UNCHANGED suggestions_by_trainee
       ELSE IF request.json = NotADictBody
       THEN /\ response' =
                 Response(400, "Invalid data structure: Top level should be a dictionary with trainee_ids as keys", EmptyDict)
            /\ ap_pc' = "done"
            /\ UNCHANGED suggestions_by_trainee
       ELSE /\ suggestions_by_trainee' = EmptyDict
            /\ ap_pc' = "loop"
            /\ UNCHANGED response
    /\ UNCHANGED <<request, ap_index>>
    /\ UNCHANGED ap_others

\* the end of an iteration: the entry is stored, or the exception reaches the
\* except clause of process_logs
loop_body(trainee_id, step) ==
    IF step.outcome = "raised"
    THEN /\ response' = Response(500, "Internal server error", EmptyDict)
         /\ ap_pc' = "done"
         /\ UNCHANGED <<ap_index, suggestions_by_trainee>>
    ELSE /\ suggestions_by_trainee' =
              [k \in DOMAIN suggestions_by_trainee \cup {trainee_id} |->
                  IF k = trainee_id THEN step.entry ELSE suggestions_by_trainee[k]]
         /\ ap_index' = ap_index + 1
         /\ UNCHANGED <<ap_pc, response>>

\* one iteration of the loop over data.items()
ApTrainee ==
    /\ ap_pc = "loop"
    /\ ap_index <= Len(request.json)
    /\ loop_body(request.json[ap_index].trainee_id,
                 trainee_step(request.json[ap_index].trainee_data))
    /\ UNCHANGED request
    /\ UNCHANGED ap_others

\* the return after the loop
ApRespond ==
    /\ ap_pc = "loop"
    /\ ap_index > Len(request.json)
    /\ response' = Response(200, "", suggestions_by_trainee)
    /\ ap_pc' = "done"
    /\ UNCHANGED <<request, ap_index, suggestions_by_trainee>>
    /\ UNCHANGED ap_others

ApNext == ApReceive \/ ApAuth \/ ApValidate \/ ApTrainee \/ ApRespond

----------------------------------------------------------------------------
(* Properties of the analyzers *)

\* the sum of the values of a dict of counts
RECURSIVE SumValues(_)
SumValues(d) ==
    IF DOMAIN d = {} THEN 0
    ELSE LET k == CHOOSE x \in DOMAIN d : TRUE
         IN  d[k] + SumValues([x \in DOMAIN d \ {k} |-> d[x]])

\* the positions of the batch passed in that carry no completion_status
NoStatus == {i \in 1..Len(wk_given) : "completion_status" \notin DOMAIN wk_given[i]}

\* C8: for a non-empty batch for which analyze_workout_logs returns, the
\* counts of completion_summary sum to the number of entries, the entries
\* without a completion_status being those counted under "unknown".
C8_CompletionSummarySums ==
    (wk_pc = "returned" /\ wk_given # <<>>) =>
        /\ SumValues(wk_out.result.completion_summary) = Len(wk_given)
        /\ Get(wk_out.result.completion_summary, "unknown", 0) = Cardinality(NoStatus)

\* C8 witness: a returned batch of two entries, one without a status.
C8_Witness ==
    /\ wk_pc = "returned"
    /\ Len(wk_given) = 2
    /\ Cardinality(NoStatus) = 1
    /\ DOMAIN wk_out.result.completion_summary = {"unknown", "completed"}

\* the value of a numeric field of a diet entry, 0 when missing or null
FieldOrZero(e, key) ==
    IF key \in DOMAIN e /\ e[key] # NoneNum THEN e[key] ELSE 0

\* the sum of a field over the positions P of the batch passed in
RECURSIVE GivenSum(_, _)
GivenSum(P, key) ==
    IF P = {} THEN 0
    ELSE LET i == CHOOSE x \in P : TRUE
         IN  FieldOrZero(dt_given[i], key) + GivenSum(P \ {i}, key)

\* C9: total_calories is the sum over all entries of the batch of the
\* entry's calories, a missing or null calories counting 0.
C9_TotalCalories ==
    dt_pc = "returned" =>
        dt_out.result.total_calories = GivenSum(1..Len(dt_given), "calories")

\* C9 witness: a returned batch of two entries, one with calories and one
\* with null calories.
C9_Witness ==
    /\ dt_pc = "returned"
    /\ Len(dt_given) = 2
    /\ \E i, j \in 1..2 :
          /\ Get(dt_given[i], "calories", 0) = NoneNum
          /\ Get(dt_given[j], "calories", 0) = 500
    /\ dt_out.result.total_calories = 500

\* the positions of the batch passed in whose log_date is a date, and those
\* whose log_date is missing or unparseable
Dated == {i \in 1..Len(dt_given) : Get(dt_given[i], "log_date", NoneText) \in {Date1026, Date1027}}
Undated == (1..Len(dt_given)) \ Dated

\* the number of distinct days among the dated entries
DistinctDays == Cardinality({dt_given[i]["log_date"] : i \in Dated})

\* the average the claim states for one field
ClaimedAverage(key) ==
    IF DistinctDays > 0 THEN Ratio(GivenSum(Dated, key), DistinctDays) ELSE Zero

\* C10: an entry whose log_date is missing or unparseable does not make
\* analyze_diet_logs fail; its calories and macros are in the running
\* totals, it opens no day bucket and adds nothing to the daily averages,
\* which are the per-day sums over the number of distinct parseable days.
C10_UndatedEntry ==
    /\ (dt_pc = "raised") =>
           \E i \in 1..Len(dt_given) : Get(dt_given[i], "created_at", <<>>) = CreatedNoFraction
    /\ (dt_pc = "returned") =>
           /\ dt_out.result.total_calories = GivenSum(1..Len(dt_given), "calories")
           /\ dt_out.result.total_protein = GivenSum(1..Len(dt_given), "protein")
           /\ dt_out.result.total_carbs = GivenSum(1..Len(dt_given), "carbs")
           /\ dt_out.result.total_fats = GivenSum(1..Len(dt_given), "fats")
           /\ dt_out.result.average_daily_calories = ClaimedAverage("calories")
           /\ dt_out.result.average_daily_protein = ClaimedAverage("protein")
           /\ dt_out.result.average_daily_carbs = ClaimedAverage("carbs")
           /\ dt_out.result.average_daily_fats = ClaimedAverage("fats")

\* C10 witness: a returned batch with an entry dated "not-a-date" carrying
\* 500 calories beside an entry of a real day carrying 200.
C10_Witness ==
    /\ dt_pc = "returned"
    /\ \E i \in Undated, j \in Dated :
          /\ Get(dt_given[i], "log_date", <<>>) = NotADate
          /\ Get(dt_given[i], "calories", 0) = 500
          /\ Get(dt_given[j], "calories", 0) = 200
    /\ dt_out.result.total_calories = 700
    /\ dt_out.result.average_daily_calories = Ratio(200, 1)

----------------------------------------------------------------------------
(* Properties of the progress trends *)

\* the exercises named by the batch passed in
GivenExercises ==
    {wk_given[i]["workout_exercise_id"] :
        i \in {j \in 1..Len(wk_given) : "workout_exercise_id" \in DOMAIN wk_given[j]}}

\* the non-null values of a per-set field over all entries of an exercise
GivenPerSet(ex, key) ==
    UNION {{wk_given[i][key][n] : n \in 1..Len(wk_given[i][key])} \ {NoneNum} :
             i \in {j \in 1..Len(wk_given) :
                       /\ Get(wk_given[j], "workout_exercise_id", None) = ex
                       /\ key \in DOMAIN wk_given[j]}}

\* the non-null sets_completed over all entries of an exercise
GivenSets(ex) ==
    {wk_given[i]["sets_completed"] :
        i \in {j \in 1..Len(wk_given) :
                  /\ Get(wk_given[j], "workout_exercise_id", None) = ex
                  /\ "sets_completed" \in DOMAIN wk_given[j]}} \ {NoneNum}

\* the label the claim states: max > min is two different values
ClaimedLabel(ex) ==
    IF Cardinality(GivenPerSet(ex, "weight_per_set")) > 1 THEN "Weight increased"
    ELSE IF Cardinality(GivenPerSet(ex, "reps_per_set")) > 1 THEN "Reps increased"
    ELSE IF Cardinality(GivenSets(ex)) > 1 THEN "Sets increased"
    ELSE "No significant change"

----------------------------------------------------------------------------
(* Properties of analyze_diet_logs on members that are no dicts *)

\* the positions of the batch passed in that hold a dict
Records == {i \in 1..Len(dt_given) : IsDict(dt_given[i])}

\* a dict whose created_at, if any, has the format the sort expects
ValidEntry(e) == Get(e, "created_at", <<>>) # CreatedNoFraction

\* the call is over, on a batch of valid entries and members that are no dicts
MixedBatchAnalyzed ==
    /\ dt_pc \in {"returned", "raised"}
    /\ Records # {}
    /\ Records # 1..Len(dt_given)
    /\ \A i \in Records : ValidEntry(dt_given[i])

\* C12: when the diet batch holds a member that is no dict among valid entries,
\* analyze_diet_logs does not fail; the member is skipped and the totals are those
\* of the remaining entries.
C12_NonRecordSkipped ==
    MixedBatchAnalyzed =>
        /\ dt_pc = "returned"
        /\ dt_out.result.total_calories = GivenSum(Records, "calories")

----------------------------------------------------------------------------
(* Properties of the consistency record *)

\* the distinct non-empty workout_date values of the batch passed in
GivenDates ==
    {Get(wk_given[i], "workout_date", <<>>) : i \in 1..Len(wk_given)} \ {<<>>, NoneText}

\* the days between the earliest and the latest of them
GivenSpan ==
    SetMax({strptime_date(d).day : d \in GivenDates})
        - SetMin({strptime_date(d).day : d \in GivenDates})

\* the ratio the claim states
ClaimedRatio ==
    IF GivenSpan > 0 THEN Ratio(Cardinality(GivenDates), GivenSpan)
    ELSE Ratio(Cardinality(GivenDates), 1)

\* C14: for a batch with at least 2 distinct non-empty workout_date values the
\* consistency record carries a workouts-per-day ratio: the number of distinct
\* dates over the day span when the span is positive, and the number of distinct
\* dates itself when the span is 0.
C14_RatioAlwaysCarried ==
    (wk_pc = "returned" /\ Cardinality(GivenDates) >= 2) =>
        /\ "workouts_per_day_average" \in DOMAIN wk_out.result.consistency
        /\ wk_out.result.consistency["workouts_per_day_average"] = ClaimedRatio

\* the part of C14 on a positive span
PositiveSpanRatio ==
    (wk_pc = "returned" /\ Cardinality(GivenDates) >= 2 /\ GivenSpan > 0) =>
        /\ "workouts_per_day_average" \in DOMAIN wk_out.result.consistency
        /\ wk_out.result.consistency["workouts_per_day_average"] = ClaimedRatio

----------------------------------------------------------------------------
(* Properties of process_trainee_data *)

\* the call of analyze_workout_logs has been made, with an empty list
EmptyWorkoutAnalyzed == pd_workout.outcome # "none" /\ pd_given["workout_logs"] = <<>>

\* the call of analyze_diet_logs has been made, with an empty list
EmptyDietAnalyzed == pd_diet.outcome # "none" /\ pd_given["diet_logs"] = <<>>

DietTotals == {"total_calories", "total_protein", "total_carbs", "total_fats"}

DietAverages ==
    {"average_daily_calories", "average_daily_protein", "average_daily_carbs",
     "average_daily_fats"}

\* C7: analyze_workout_logs and analyze_diet_logs called with an empty list do not
\* raise; the workout analysis carries the message "No workout logs provided." in
\* consistency, an empty completion summary, empty progress trends, perceived
\* exertion "N/A" and no notes; the diet analysis has every total, every daily
\* average and the compliance rate at 0, and empty distributions and notes.
C7_EmptyListAnalysis ==
    /\ EmptyWorkoutAnalyzed =>
          /\ pd_workout.outcome = "returned"
          /\ pd_workout.result.consistency = [k \in {"message"} |-> "No workout logs provided."]
          /\ pd_workout.result.completion_summary = EmptyDict
          /\ pd_workout.result.progress_trends = EmptyDict
          /\ pd_workout.result.perceived_exertion.label = "N/A"
          /\ pd_workout.result.notes_summary = <<>>
    /\ EmptyDietAnalyzed =>
          /\ pd_diet.outcome = "returned"
          /\ \A k \in DietTotals : pd_diet.result[k] = 0
          /\ \A k \in DietAverages : pd_diet.result[k].num = 0
          /\ pd_diet.result.compliance_rate.num = 0
          /\ pd_diet.result.meal_type_distribution = EmptyDict
          /\ pd_diet.result.food_name_counts = EmptyDict
          /\ pd_diet.result.notes_summary = <<>>

\* both analyzers have been called with an empty list and the analysis was returned
C7_Witness ==
    /\ pd_pc = "returned"
    /\ EmptyWorkoutAnalyzed
    /\ EmptyDietAnalyzed

----------------------------------------------------------------------------
(* Properties of process_logs *)

\* the trainee passes the checks of the loop and its analysis or suggestion step raises
StepFails(td) == trainee_error(td) = "" /\ trainee_step(td).outcome = "raised"

\* an authorized request with several trainees has been answered, and the analysis
\* or suggestion step failed for one of them
AnsweredWithFailingTrainee ==
    /\ ap_pc = "done"
    /\ request.api_key = API_KEY
    /\ IsObject(request.json)
    /\ Len(request.json) >= 2
    /\ \E i \in 1..Len(request.json) : StepFails(request.json[i].trainee_data)

\* the entry of the response for a trainee is the one the trainee's own data calls for
AnsweredFor(item) ==
    /\ item.trainee_id \in DOMAIN response.suggestions
    /\ IF StepFails(item.trainee_data)
       THEN response.suggestions[item.trainee_id].kind = "error"
       ELSE response.suggestions[item.trainee_id] = trainee_step(item.trainee_data).entry

\* C3: when a request carries several trainees and the analysis or suggestion step
\* fails for one of them, the response still has an entry for every trainee: an
\* error entry for the failing one, the computed suggestion list for each other,
\* in whatever order the trainees are processed.
C3_EveryTraineeAnswered ==
    AnsweredWithFailingTrainee =>
        /\ response.status = 200
        /\ \A i \in 1..Len(request.json) : AnsweredFor(request.json[i])

----------------------------------------------------------------------------
(* Properties of the analyzers on the caller's lists *)

\* C13: analyze_workout_logs and analyze_diet_logs leave the caller's batch
\* unchanged: after either call returns, the list passed in holds the same
\* entries in the same order as before the call.
C13_BatchUnchanged ==
    /\ pd_workout.outcome = "returned" =>
          trainee_data["workout_logs"] = pd_given["workout_logs"]
    /\ pd_diet.outcome = "returned" =>
          trainee_data["diet_logs"] = pd_given["diet_logs"]

----------------------------------------------------------------------------
(* Properties of generate_suggestions(process_trainee_data(record)) *)

RuleTips ==
    {FrequencyTip, IntensityAdjustment, OvertrainingWarning, RecoveryTip, MealPlanTip,
     CalorieTip, ProteinTip, HungerTip, PainWarning}

\* the trainees of the answered request for which a suggestion list was computed
Suggested ==
    {t \in DOMAIN response.suggestions : response.suggestions[t].kind = "suggestions"}

\* C17: the list generate_suggestions(process_trainee_data(record)) returns does
\* not depend on the logs: for any two trainee records whose analysis succeeds
\* the two lists are the same, and no tip of a rule is in them.
C17_ListIndependentOfLogs ==
    (ap_pc = "done" /\ response.status = 200) =>
        /\ \A t, u \in Suggested :
              response.suggestions[t].suggestions = response.suggestions[u].suggestions
        /\ \A t \in Suggested :
              \A i \in 1..Len(response.suggestions[t].suggestions) :
                  response.suggestions[t].suggestions[i] \notin RuleTips

\* C17 witness: a request answered for a trainee without logs and a trainee whose
\* logs carry a high exertion, notes of pain and a non-compliant, hungry diet entry
C17_Witness ==
    /\ ap_pc = "done"
    /\ response.status = 200
    /\ Len(request.json) = 2
    /\ request.json[1].trainee_data = [workout_logs |-> <<>>, diet_logs |-> <<>>]
    /\ request.json[2].trainee_data =
          [workout_logs |-> <<WorkoutEntryGood>>, diet_logs |-> <<DietEntryGood>>]
    /\ Suggested = {"t1", "t2"}
    /\ response.suggestions["t2"].suggestions =
          <<GeneralIntensityTip, GeneralHydrationTip, Motivation>>

----------------------------------------------------------------------------
(* Specifications: one per component, each call running on its own *)

vars == <<sg_vars, wk_vars, dt_vars, pd_vars, ap_vars>>

Init == SgInit /\ WkInit /\ DtInit /\ PdInit /\ ApInit

\* calls of generate_suggestions
SgSpec == Init /\ [][SgNext]_vars

\* calls of analyze_workout_logs
WkSpec == Init /\ [][WkNext]_vars

\* calls of analyze_diet_logs
DtSpec == Init /\ [][DtNext]_vars

\* calls of analyze_workout_logs with entries of exercises
WxSpec == Init /\ [][WxNext]_vars

\* calls of analyze_diet_logs with lists that hold members that are no dicts
DmSpec == Init /\ [][DmNext]_vars

\* calls of analyze_workout_logs with dates written in several ways
WdSpec == Init /\ [][WdNext]_vars

\* calls of process_trainee_data
PdSpec == Init /\ [][PdNext]_vars

\* requests to process_logs
ApSpec == Init /\ [][ApNext]_vars

====
